---- MODULE Spec2Model ----
(***************************************************************************)
(* Model of the chemfiles selection parser, src/src/selections/parser.cpp: *)
(* clean_token_stream, shunting_yard, dispatch_parsing and parse.          *)
(*                                                                         *)
(* A token is a record [type, val]; val is the text of an IDENT, NUMBER or *)
(* VARIABLE token and "" otherwise.  Stacks are sequences whose top is the *)
(* last element.  An AST node is a tuple whose head is the node's type.    *)
(*                                                                         *)
(* Token (lexer.hpp) and the parse<Expr> templates (expr.hpp) are declared *)
(* outside parser.cpp; they follow spec.md sections 3, 4.3, 4.4 and 4.5.   *)
(***************************************************************************)
EXTENDS Integers, Sequences, FiniteSets, TLC

VARIABLES input, pc, stream, pos, operators, output, rpn, cursor, root, result, ub

vars == <<input, pc, stream, pos, operators, output, rpn, cursor, root, result, ub>>

\* Longest token stream drawn from Alphabet.
MaxLen == 4

----------------------------------------------------------------------------
(* Tokens *)

Tok(t, v) == [type |-> t, val |-> v]

Ident(v) == Tok("IDENT", v)

Number(v) == Tok("NUMBER", v)

Op(t) == Tok(t, "")

BinaryOps == {"EQ", "NEQ", "LT", "LE", "GT", "GE"}

BooleanOps == {"AND", "OR", "NOT"}

is_number(token) == token.type = "NUMBER"

is_variable(token) == token.type = "VARIABLE"

is_ident(token) == token.type = "IDENT"

is_boolean_op(token) == token.type \in BooleanOps

is_binary_op(token) == token.type \in BinaryOps

is_operator(token) == is_binary_op(token) \/ is_boolean_op(token)

\* Comparison > NOT > AND > OR; parentheses and comma are below every
\* operator.  An identifier outranks every operator: a property name waiting
\* on the operator stack goes to the output ahead of its comparison value.
precedence(token) ==
    CASE token.type = "OR" -> 10
      [] token.type = "AND" -> 20
      [] token.type = "NOT" -> 30
      [] token.type \in BinaryOps -> 40
      [] token.type = "IDENT" -> 50
      [] OTHER -> 0

\* Token::str() of an operator token
str(token) ==
    CASE token.type = "EQ" -> "=="
      [] token.type = "NEQ" -> "!="
      [] token.type = "LT" -> "<"
      [] token.type = "LE" -> "<="
      [] token.type = "GT" -> ">"
      [] token.type = "GE" -> ">="
      [] token.type = "AND" -> "and"
      [] token.type = "OR" -> "or"
      [] token.type = "NOT" -> "not"
      [] OTHER -> token.val

----------------------------------------------------------------------------
(* Function table *)

FUNCTIONS == {"name", "mass", "index", "x", "y", "z", "vx", "vy", "vz"}

is_function(token) == is_ident(token) /\ token.val \in FUNCTIONS

----------------------------------------------------------------------------
(* Stack and vector helpers *)

Top(s) == s[Len(s)]

Pop(s) == SubSeq(s, 1, Len(s) - 1)

RECURSIVE Reverse(_)
Reverse(s) == IF s = <<>> THEN <<>> ELSE Append(Reverse(Tail(s)), Head(s))

----------------------------------------------------------------------------
(* clean_token_stream *)

\* Short form granted to every property of the function table.
have_short_form_any(expr) == expr \in FUNCTIONS

have_short_form(expr) == expr = "name" \/ expr = "index" \/ expr = "mass"

RECURSIVE clean_from(_, _)
clean_from(s, it) ==
    IF it > Len(s) THEN <<>>
    ELSE IF /\ is_ident(s[it])
            /\ have_short_form(s[it].val)
            /\ it + 1 <= Len(s)
            /\ ~is_operator(s[it + 1])
         THEN <<s[it], Op("EQ")>> \o clean_from(s, it + 1)
         ELSE <<s[it]>> \o clean_from(s, it + 1)

clean_token_stream(s) == clean_from(s, 1)

----------------------------------------------------------------------------
(* shunting_yard: the loops of the branches *)

\* Operator branch, single pop (the loop body run at most once).
PopOperatorsOnce(token, ops, out) ==
    IF ops # <<>> /\ precedence(token) <= precedence(Top(ops))
    THEN [ops |-> Pop(ops), out |-> Append(out, Top(ops))]
    ELSE [ops |-> ops, out |-> out]

\* Operator branch: pop while the incoming precedence is <= the top's.
RECURSIVE PopOperators(_, _, _)
PopOperators(token, ops, out) ==
    IF ops # <<>> /\ precedence(token) <= precedence(Top(ops))
    THEN PopOperators(token, Pop(ops), Append(out, Top(ops)))
    ELSE [ops |-> ops, out |-> out]

\* Close parenthesis branch: pop until the stack is empty or its top is "(".
RECURSIVE PopToLParen(_, _)
PopToLParen(ops, out) ==
    IF ops # <<>> /\ Top(ops).type # "LPAREN"
    THEN PopToLParen(Pop(ops), Append(out, Top(ops)))
    ELSE [ops |-> ops, out |-> out]

\* Comma branch on a non-empty stack: pop until the top is "(", throw when
\* a pop empties the stack.
RECURSIVE CommaPop(_, _)
CommaPop(ops, out) ==
    IF Top(ops).type # "LPAREN"
    THEN IF Pop(ops) = <<>>
         THEN [ops |-> <<>>, out |-> Append(out, Top(ops)), err |-> TRUE]
         ELSE CommaPop(Pop(ops), Append(out, Top(ops)))
    ELSE [ops |-> ops, out |-> out, err |-> FALSE]

\* End of input: pop what is left, throw on a parenthesis.
RECURSIVE DrainOperators(_, _)
DrainOperators(ops, out) ==
    IF ops = <<>> THEN [out |-> out, err |-> FALSE]
    ELSE IF Top(ops).type = "LPAREN" \/ Top(ops).type = "RPAREN"
         THEN [out |-> out, err |-> TRUE]
         ELSE DrainOperators(Pop(ops), Append(out, Top(ops)))

----------------------------------------------------------------------------
(* parse<Expr> and dispatch_parsing.  A call returns [ast, cursor, err];   *)
(* err = "" when no SelectionError was thrown.  end is Len(tokens) + 1.    *)

Ok(ast, cur) == [ast |-> ast, cursor |-> cur, err |-> ""]

Throw(cur, msg) == [ast |-> <<>>, cursor |-> cur, err |-> msg]

RECURSIVE dispatch_parsing(_, _)

parse_AllExpr(tokens, begin) == Ok(<<"All">>, begin + 1)

parse_NoneExpr(tokens, begin) == Ok(<<"None">>, begin + 1)

\* Name(op, value): a string value, == or != only.
parse_NameExpr(tokens, begin) ==
    IF ~is_ident(tokens[begin + 1]) \/ tokens[begin].type \notin {"EQ", "NEQ"}
    THEN Throw(begin, "Name selection must follow the pattern: 'name == {name} | name != {name}'")
    ELSE Ok(<<"Name", str(tokens[begin]), tokens[begin + 1].val>>, begin + 3)

\* Index, Mass, Position, Velocity: a numeric value, any comparison.
parse_NumericExpr(tag, tokens, begin) ==
    IF ~is_number(tokens[begin + 1])
    THEN Throw(begin, "Numeric selection must follow the pattern: '{property} {op} {number}'")
    ELSE Ok(tag \o <<str(tokens[begin]), tokens[begin + 1].val>>, begin + 3)

parse_IndexExpr(tokens, begin) == parse_NumericExpr(<<"Index">>, tokens, begin)

parse_MassExpr(tokens, begin) == parse_NumericExpr(<<"Mass">>, tokens, begin)

parse_PositionExpr(tokens, begin) ==
    parse_NumericExpr(<<"Position", tokens[begin + 2].val>>, tokens, begin)

parse_VelocityExpr(tokens, begin) ==
    parse_NumericExpr(<<"Velocity", tokens[begin + 2].val>>, tokens, begin)

\* And, Or: the operand read first is the right-hand side, the RPN being
\* reversed.
parse_Binary(tag, tokens, begin) ==
    LET end == Len(tokens) + 1 IN
    IF begin + 1 = end
    THEN Throw(begin + 1, "Missing right-hand side operand")
    ELSE LET rhs == dispatch_parsing(tokens, begin + 1) IN
         IF rhs.err # "" THEN rhs
         ELSE IF rhs.cursor = end
              THEN Throw(rhs.cursor, "Missing left-hand side operand")
              ELSE LET lhs == dispatch_parsing(tokens, rhs.cursor) IN
                   IF lhs.err # "" THEN lhs
                   ELSE Ok(<<tag, lhs.ast, rhs.ast>>, lhs.cursor)

parse_AndExpr(tokens, begin) == parse_Binary("And", tokens, begin)

parse_OrExpr(tokens, begin) == parse_Binary("Or", tokens, begin)

parse_NotExpr(tokens, begin) ==
    LET end == Len(tokens) + 1 IN
    IF begin + 1 = end
    THEN Throw(begin + 1, "Missing operand to 'not'")
    ELSE LET operand == dispatch_parsing(tokens, begin + 1) IN
         IF operand.err # "" THEN operand
         ELSE Ok(<<"Not", operand.ast>>, operand.cursor)

\* The comparison branch reporting an unknown property the way it reports
\* a missing one.
binary_dispatch_same_message(tokens, begin) ==
    LET end == Len(tokens) + 1 IN
    IF (end - begin) < 3 \/ tokens[begin + 2].type # "IDENT"
       \/ tokens[begin + 2].val \notin FUNCTIONS
    THEN Throw(begin, "Bad binary operation around " \o str(tokens[begin]))
    ELSE LET ident == tokens[begin + 2].val IN
         IF ident = "name" THEN parse_NameExpr(tokens, begin)
         ELSE IF ident = "index" THEN parse_IndexExpr(tokens, begin)
         ELSE IF ident = "mass" THEN parse_MassExpr(tokens, begin)
         ELSE IF ident \in {"x", "y", "z"} THEN parse_PositionExpr(tokens, begin)
         ELSE parse_VelocityExpr(tokens, begin)

\* dispatch_parsing, the branch of a comparison operator at the cursor.
binary_dispatch(tokens, begin) ==
    LET end == Len(tokens) + 1 IN
    IF (end - begin) < 3 \/ tokens[begin + 2].type # "IDENT"
    THEN Throw(begin, "Bad binary operation around " \o str(tokens[begin]))
    ELSE LET ident == tokens[begin + 2].val IN
         IF ident = "name" THEN parse_NameExpr(tokens, begin)
         ELSE IF ident = "index" THEN parse_IndexExpr(tokens, begin)
         ELSE IF ident = "mass" THEN parse_MassExpr(tokens, begin)
         ELSE IF ident = "x" \/ ident = "y" \/ ident = "z"
              THEN parse_PositionExpr(tokens, begin)
         ELSE IF ident = "vx" \/ ident = "vy" \/ ident = "vz"
              THEN parse_VelocityExpr(tokens, begin)
         ELSE Throw(begin, "Unknown operation: " \o ident)

\* dispatch_parsing with begin # end.
dispatch_parsing(tokens, begin) ==
    IF is_boolean_op(tokens[begin])
    THEN CASE tokens[begin].type = "AND" -> parse_AndExpr(tokens, begin)
           [] tokens[begin].type = "OR" -> parse_OrExpr(tokens, begin)
           [] tokens[begin].type = "NOT" -> parse_NotExpr(tokens, begin)
           [] OTHER -> Throw(begin, "Unknown boolean operator. This is a bug.")
    ELSE IF is_binary_op(tokens[begin])
    THEN binary_dispatch(tokens, begin)
    ELSE IF is_ident(tokens[begin])
    THEN LET ident == tokens[begin].val IN
         IF ident = "all" THEN parse_AllExpr(tokens, begin)
         ELSE IF ident = "none" THEN parse_NoneExpr(tokens, begin)
         ELSE Throw(begin, "Unknown operation: " \o ident)
    ELSE Throw(begin, "Could not parse the selection")

\* parse, after dispatch_parsing returned r without throwing; the end check
\* left out.
parse_end_unchecked(r, end) == [kind |-> "ast", ast |-> r.ast, msg |-> ""]

\* parse, after dispatch_parsing returned r without throwing.
parse_end(r, end) ==
    IF r.cursor # end
    THEN [kind |-> "error", ast |-> <<>>,
          msg |-> "Could not parse the end of the selection."]
    ELSE [kind |-> "ast", ast |-> r.ast, msg |-> ""]

SelectionError(msg) == [kind |-> "error", ast |-> <<>>, msg |-> msg]

NoResult == [kind |-> "none", ast |-> <<>>, msg |-> ""]

\* What the build can do after reading a token that does not exist: abort,
\* throw as if the token had been rejected, or carry on as if it had been
\* accepted.
GarbageOutcomes == {"crash", "error", "continue"}

Crash == [kind |-> "crash", ast |-> <<>>, msg |-> ""]

----------------------------------------------------------------------------
(* Inputs *)

Alphabet ==
    {Ident("name"), Ident("x"), Ident("all"), Number("1"), Tok("VARIABLE", "1"),
     Op("EQ"), Op("AND"), Op("NOT"), Op("LPAREN"), Op("RPAREN"), Op("COMMA")}

Streams == UNION {[1..k -> Alphabet] : k \in 0..MaxLen}

\* Property comparisons: [prop, op, val, short]; short is the form without
\* the == operator.
Comparisons ==
    {[prop |-> "name", op |-> "EQ", val |-> "foo", short |-> FALSE],
     [prop |-> "name", op |-> "EQ", val |-> "foo", short |-> TRUE],
     [prop |-> "name", op |-> "NEQ", val |-> "bar", short |-> FALSE],
     [prop |-> "index", op |-> "EQ", val |-> "3", short |-> FALSE],
     [prop |-> "index", op |-> "EQ", val |-> "1", short |-> TRUE],
     [prop |-> "index", op |-> "LT", val |-> "3", short |-> FALSE],
     [prop |-> "mass", op |-> "EQ", val |-> "1", short |-> FALSE],
     [prop |-> "mass", op |-> "GE", val |-> "12", short |-> FALSE],
     [prop |-> "x", op |-> "LE", val |-> "1", short |-> FALSE],
     [prop |-> "vz", op |-> "GT", val |-> "1", short |-> FALSE]}

Value(c) == IF c.prop = "name" THEN Ident(c.val) ELSE Number(c.val)

\* The tokens of a comparison, as the tokenizer hands them to parse.
Text(c) ==
    IF c.short THEN <<Ident(c.prop), Value(c)>>
    ELSE <<Ident(c.prop), Op(c.op), Value(c)>>

\* The AST node of a comparison.
Node(c) ==
    CASE c.prop = "name" -> <<"Name", str(Op(c.op)), c.val>>
      [] c.prop = "index" -> <<"Index", str(Op(c.op)), c.val>>
      [] c.prop = "mass" -> <<"Mass", str(Op(c.op)), c.val>>
      [] c.prop \in {"x", "y", "z"} -> <<"Position", c.prop, str(Op(c.op)), c.val>>
      [] OTHER -> <<"Velocity", c.prop, str(Op(c.op)), c.val>>

OrAnd(a, b, c) == Text(a) \o <<Op("OR")>> \o Text(b) \o <<Op("AND")>> \o Text(c)

AndOr(a, b, c) == Text(a) \o <<Op("AND")>> \o Text(b) \o <<Op("OR")>> \o Text(c)

NotAnd(a, b) == <<Op("NOT")>> \o Text(a) \o <<Op("AND")>> \o Text(b)

NotNot(e) == <<Op("NOT"), Op("NOT")>> \o e

\* Well-formed operands: [text, node]
Operands ==
    {[text |-> <<Ident("all")>>, node |-> <<"All">>],
     [text |-> <<Ident("none")>>, node |-> <<"None">>]}
    \cup {[text |-> Text(c), node |-> Node(c)] : c \in Comparisons}

Selections ==
    {OrAnd(a, b, c) : a, b, c \in Comparisons}
    \cup {AndOr(a, b, c) : a, b, c \in Comparisons}
    \cup {NotAnd(a, b) : a, b \in Comparisons}
    \cup {NotNot(e.text) : e \in Operands}
    \cup {<<Ident("name"), Op("EQ"), Ident("foo"), Ident("index"), Op("EQ"), Number("1")>>,
          <<Ident("name"), Op("LPAREN"), Tok("VARIABLE", "1"), Op("RPAREN"), Op("EQ"), Ident("foo")>>}

----------------------------------------------------------------------------
(* State machine: parse(token_stream), one action per stage and, inside    *)
(* shunting_yard, one action per branch of the token loop.                 *)

Init ==
    /\ input \in Streams \cup Selections
    /\ pc = "clean"
    /\ stream = <<>>
    /\ pos = 1
    /\ operators = <<>>
    /\ output = <<>>
    /\ rpn = <<>>
    /\ cursor = 1
    /\ root = <<>>
    /\ result = NoResult
    /\ ub = "none"

\* token_stream = clean_token_stream(token_stream)
Clean ==
    /\ pc = "clean"
    /\ stream' = clean_token_stream(input)
    /\ pc' = "yard"
    /\ UNCHANGED <<input, pos, operators, output, rpn, cursor, root, result, ub>>

AtToken == pc = "yard" /\ pos <= Len(stream)

token == stream[pos]

\* token++ with the stack and the output as the branch left them
NextToken(ops, out) ==
    /\ operators' = ops
    /\ output' = out
    /\ pos' = pos + 1
    /\ UNCHANGED <<input, pc, stream, rpn, cursor, root, result, ub>>

\* throw SelectionError(msg) out of shunting_yard and parse
ThrowFromYard(ops, out, msg) ==
    /\ operators' = ops
    /\ output' = out
    /\ pc' = "done"
    /\ result' = SelectionError(msg)
    /\ UNCHANGED <<input, stream, pos, rpn, cursor, root, ub>>

\* operators.top() of an empty stack
EmptyTopRead(continueOps, continueOut, msg) ==
    /\ ub' = "empty_top"
    /\ \E o \in GarbageOutcomes :
          /\ operators' = continueOps
          /\ output' = continueOut
          /\ pc' = IF o = "continue" THEN pc ELSE "done"
          /\ pos' = IF o = "continue" THEN pos + 1 ELSE pos
          /\ result' = CASE o = "crash" -> Crash
                         [] o = "error" -> SelectionError(msg)
                         [] OTHER -> result
    /\ UNCHANGED <<input, stream, rpn, cursor, root>>

YardOperand ==
    /\ AtToken
    /\ is_number(token) \/ is_variable(token)
    /\ NextToken(operators, Append(output, token))

YardIdent ==
    /\ AtToken
    /\ is_ident(token)
    /\ IF is_function(token)
       THEN NextToken(Append(operators, token), output)
       ELSE NextToken(operators, Append(output, token))

YardComma ==
    /\ AtToken
    /\ token.type = "COMMA"
    /\ operators # <<>>
    /\ LET r == CommaPop(operators, output) IN
       IF r.err
       THEN ThrowFromYard(r.ops, r.out, "Mismatched paretheses or additional comma found")
       ELSE NextToken(r.ops, r.out)

YardCommaEmptyStack ==
    /\ AtToken
    /\ token.type = "COMMA"
    /\ operators = <<>>
    /\ EmptyTopRead(operators, output, "Mismatched paretheses or additional comma found")

YardOperator ==
    /\ AtToken
    /\ is_operator(token)
    /\ LET r == PopOperators(token, operators, output) IN
       NextToken(Append(r.ops, token), r.out)

YardLParen ==
    /\ AtToken
    /\ token.type = "LPAREN"
    /\ NextToken(Append(operators, token), output)

YardRParen ==
    /\ AtToken
    /\ token.type = "RPAREN"
    /\ LET r == PopToLParen(operators, output) IN
       /\ r.ops # <<>>
       /\ LET f == IF is_function(Top(r.ops))
                   THEN [ops |-> Pop(r.ops), out |-> Append(r.out, Top(r.ops))]
                   ELSE r
          IN IF f.ops = <<>> \/ Top(f.ops).type # "LPAREN"
             THEN ThrowFromYard(f.ops, f.out, "Mismatched parentheses")
             ELSE NextToken(Pop(f.ops), f.out)

YardRParenEmptyStack ==
    /\ AtToken
    /\ token.type = "RPAREN"
    /\ LET r == PopToLParen(operators, output) IN
       /\ r.ops = <<>>
       /\ EmptyTopRead(r.ops, r.out, "Mismatched parentheses")

\* token == end: drain the stack, reverse the output, return to parse
YardEnd ==
    /\ pc = "yard"
    /\ pos > Len(stream)
    /\ LET r == DrainOperators(operators, output) IN
       IF r.err
       THEN /\ pc' = "done"
            /\ result' = SelectionError("Mismatched parentheses")
            /\ UNCHANGED <<input, stream, pos, operators, output, rpn, cursor, root, ub>>
       ELSE /\ rpn' = Reverse(r.out)
            /\ pc' = "dispatch"
            /\ operators' = <<>>
            /\ output' = r.out
            /\ UNCHANGED <<input, stream, pos, cursor, root, result, ub>>

\* ast = dispatch_parsing(begin, end); if (begin != end) throw; return ast
Parse ==
    /\ pc = "dispatch"
    /\ rpn # <<>>
    /\ LET r == dispatch_parsing(rpn, 1) IN
       /\ cursor' = r.cursor
       /\ root' = r.ast
       /\ result' = IF r.err # "" THEN SelectionError(r.err)
                    ELSE parse_end(r, Len(rpn) + 1)
    /\ pc' = "done"
    /\ UNCHANGED <<input, stream, pos, operators, output, rpn, ub>>

\* dispatch_parsing(begin, end) with begin == end reads *end
ParseEmptyRpn ==
    /\ pc = "dispatch"
    /\ rpn = <<>>
    /\ ub' = "past_end"
    /\ \E o \in {"crash", "error"} :
          result' = IF o = "crash" THEN Crash
                    ELSE SelectionError("Could not parse the selection")
    /\ pc' = "done"
    /\ UNCHANGED <<input, stream, pos, operators, output, rpn, cursor, root>>

Next ==
    \/ Clean
    \/ YardOperand
    \/ YardIdent
    \/ YardComma
    \/ YardCommaEmptyStack
    \/ YardOperator
    \/ YardLParen
    \/ YardRParen
    \/ YardRParenEmptyStack
    \/ YardEnd
    \/ Parse
    \/ ParseEmptyRpn

Spec == Init /\ [][Next]_vars

----------------------------------------------------------------------------
(* Properties *)

Returned(ast) == [kind |-> "ast", ast |-> ast, msg |-> ""]

HasLParen(ops) == \E i \in 1..Len(ops) : ops[i].type = "LPAREN"

\* Index of the open parenthesis nearest to the top of the stack
TopLParen(ops) ==
    CHOOSE i \in 1..Len(ops) :
        /\ ops[i].type = "LPAREN"
        /\ \A j \in (i + 1)..Len(ops) : ops[j].type # "LPAREN"

\* The tokens above position k of the stack, in the order they are popped
PoppedAbove(ops, k) == Reverse(SubSeq(ops, k + 1, Len(ops)))

\* C1: a close parenthesis met while no open parenthesis is on the operator
\* stack ends the parse with SelectionError("Mismatched parentheses"), and
\* the top of an empty operator stack is not read.
C1_UnmatchedCloseParenThrows ==
    [][(AtToken /\ token.type = "RPAREN" /\ ~HasLParen(operators))
        => /\ pc' = "done"
           /\ result' = SelectionError("Mismatched parentheses")
           /\ ub' # "empty_top"]_vars

\* C2: a comma met while no open parenthesis is on the operator stack (the
\* empty stack included) ends the parse with a SelectionError and reads no
\* top of an empty stack; with an open parenthesis on the stack, the comma
\* pops the operators above the nearest one to the output and leaves that
\* parenthesis at the top.
C2_CommaNeedsOpenParen ==
    [][(AtToken /\ token.type = "COMMA")
        => IF HasLParen(operators)
           THEN LET k == TopLParen(operators) IN
                /\ pc' = "yard"
                /\ pos' = pos + 1
                /\ operators' = SubSeq(operators, 1, k)
                /\ output' = output \o PoppedAbove(operators, k)
           ELSE /\ pc' = "done"
                /\ result'.kind = "error"
                /\ ub' # "empty_top"]_vars

ShortFormNames == {"name", "index", "mass"}

\* Position i of s holds a short-form identifier that has a next token, and
\* that token is no operator
Eligible(s, i) ==
    /\ s[i].type = "IDENT"
    /\ s[i].val \in ShortFormNames
    /\ i < Len(s)
    /\ s[i + 1].type \notin {"EQ", "NEQ", "LT", "LE", "GT", "GE", "AND", "OR", "NOT"}

\* Number of EQ tokens inserted before the copy of input token i
Inserted(s, i) == Cardinality({j \in 1..(i - 1) : Eligible(s, j)})

\* C3: the cleaned stream is the input in its order, with exactly one EQ
\* right after each short-form identifier (name, index, mass) whose next
\* token exists and is not an operator, and nothing else inserted.
C3_CleanInsertsEq ==
    pc # "clean" =>
        /\ Len(stream) = Len(input) + Inserted(input, Len(input) + 1)
        /\ \A i \in 1..Len(input) :
              /\ stream[i + Inserted(input, i)] = input[i]
              /\ Eligible(input, i) => stream[i + Inserted(input, i) + 1] = Op("EQ")

\* A stream with an insertion, a short-form identifier left alone and a
\* property without short form followed by a non-operator has been cleaned.
C3_Witness ==
    /\ pc # "clean"
    /\ \E i, j, k \in 1..Len(input) :
          /\ Eligible(input, i)
          /\ input[j].type = "IDENT" /\ input[j].val \in ShortFormNames
          /\ ~Eligible(input, j)
          /\ input[k] = Ident("x") /\ k < Len(input) /\ ~is_operator(input[k + 1])
    /\ Len(stream) = Len(input) + 1

\* C4: `a or b and c` parses to Or(a, And(b, c)) and `a and b or c` parses
\* to Or(And(a, b), c), for all property comparisons a, b, c.
C4_AndBindsTighterThanOr ==
    (pc = "done" /\ Len(input) >= 8) =>
        \A a, b, c \in Comparisons :
            /\ input = OrAnd(a, b, c)
                 => result = Returned(<<"Or", Node(a), <<"And", Node(b), Node(c)>>>>)
            /\ input = AndOr(a, b, c)
                 => result = Returned(<<"Or", <<"And", Node(a), Node(b)>>, Node(c)>>)

ExampleName == [prop |-> "name", op |-> "EQ", val |-> "foo", short |-> FALSE]

ExampleIndex == [prop |-> "index", op |-> "EQ", val |-> "3", short |-> FALSE]

ExampleMass == [prop |-> "mass", op |-> "EQ", val |-> "1", short |-> FALSE]

\* `name == foo or index == 3 and mass == 1` has been parsed to an AST
C4_Witness ==
    /\ pc = "done"
    /\ input = OrAnd(ExampleName, ExampleIndex, ExampleMass)
    /\ result.kind = "ast"
    /\ result.ast[1] = "Or"

\* C5: `not a and b` parses to And(Not(a), b), for all property comparisons
\* a and b.
C5_NotBindsToNextComparison ==
    (pc = "done" /\ Len(input) >= 6) =>
        \A a, b \in Comparisons :
            input = NotAnd(a, b)
                => result = Returned(<<"And", <<"Not", Node(a)>>, Node(b)>>)

\* `not name == foo and index 1` has been parsed to an AST
C5_Witness ==
    /\ pc = "done"
    /\ input = NotAnd(ExampleName, [prop |-> "index", op |-> "EQ", val |-> "1", short |-> TRUE])
    /\ result.kind = "ast"
    /\ result.ast[1] = "And"

\* C6: an AST is returned only with the cursor at the end of the RPN range
\* and is the root node; when the root node is built and an RPN token is
\* left, parse ends with SelectionError and no AST.
C6_TrailingTokensRejected ==
    /\ result.kind = "ast"
          => pc = "done" /\ cursor = Len(rpn) + 1 /\ result.ast = root /\ root # <<>>
    /\ (pc = "done" /\ root # <<>> /\ cursor <= Len(rpn))
          => result = SelectionError("Could not parse the end of the selection.")

\* `all all`: the root node All is built, one RPN token is left, parse threw
C6_Witness ==
    /\ pc = "done"
    /\ input = <<Ident("all"), Ident("all")>>
    /\ root = <<"All">>
    /\ cursor = 2
    /\ result.kind = "error"

BadBinary(tok) == "Bad binary operation around " \o str(tok)

\* A parse<Expr> constructor of a property comparison was entered: it
\* returned a node or threw its own error
ConstructorEntered(r) ==
    \/ r.err = "" /\ r.ast[1] \in {"Name", "Index", "Mass", "Position", "Velocity"}
    \/ r.err \in {"Name selection must follow the pattern: 'name == {name} | name != {name}'",
                  "Numeric selection must follow the pattern: '{property} {op} {number}'"}

\* The cursor positions of the RPN range that hold a comparison operator
BinaryOpPositions == {i \in 1..Len(rpn) : is_binary_op(rpn[i])}

\* C7 as stated: with a comparison operator at the cursor, dispatch_parsing
\* throws "Bad binary operation around <token>" when fewer than three tokens
\* remain, when the token two positions on is no identifier, and when that
\* identifier is no known property; otherwise the constructor is entered.
C7_Original ==
    pc = "done" =>
        \A i \in BinaryOpPositions :
            LET r == dispatch_parsing(rpn, i) IN
            IF \/ Len(rpn) - i < 2
               \/ rpn[i + 2].type # "IDENT"
               \/ rpn[i + 2].val \notin FUNCTIONS
            THEN r.err = BadBinary(rpn[i])
            ELSE ConstructorEntered(r)

\* C7 amended: "Bad binary operation around <token>" when fewer than three
\* tokens remain or the token two positions on is no identifier; "Unknown
\* operation: <ident>" when it is an identifier that is no known property;
\* otherwise the constructor is entered.  The root call's error is the
\* error of parse.
C7_Amended ==
    pc = "done" =>
        /\ \A i \in BinaryOpPositions :
              LET r == dispatch_parsing(rpn, i) IN
              IF Len(rpn) - i < 2 \/ rpn[i + 2].type # "IDENT"
              THEN r.err = BadBinary(rpn[i])
              ELSE IF rpn[i + 2].val \notin FUNCTIONS
                   THEN r.err = "Unknown operation: " \o rpn[i + 2].val
                   ELSE ConstructorEntered(r)
        /\ (1 \in BinaryOpPositions /\ result.kind = "error" /\ ub = "none")
              => result.msg \in {dispatch_parsing(rpn, 1).err,
                                 "Could not parse the end of the selection."}

\* `all all ==`: the RPN is `== all all`, the identifier two positions on is
\* no property and parse threw "Unknown operation: all"
C7_Witness ==
    /\ pc = "done"
    /\ rpn = <<Op("EQ"), Ident("all"), Ident("all")>>
    /\ result = SelectionError("Unknown operation: all")

\* C8: a close parenthesis whose matching open parenthesis has a function
\* identifier right below it on the stack removes both from the stack and
\* appends the function identifier to the output, after its arguments.
C8_FunctionPoppedWithParen ==
    [][(/\ AtToken
        /\ token.type = "RPAREN"
        /\ HasLParen(operators)
        /\ TopLParen(operators) > 1
        /\ is_function(operators[TopLParen(operators) - 1]))
        => LET k == TopLParen(operators) IN
           /\ operators' = SubSeq(operators, 1, k - 2)
           /\ output' = (output \o PoppedAbove(operators, k)) \o <<operators[k - 1]>>]_vars

\* C9: parse ends with an AST or a SelectionError and dispatch_parsing does
\* not read the token at the cursor when the cursor is the end of the RPN
\* range.  (Runs that read the top of an empty operator stack are C1's and
\* C2's.)
C9_ParseReturnsOrThrows ==
    /\ ub # "past_end"
    /\ (pc = "done" /\ ub # "empty_top") => result.kind \in {"ast", "error"}

\* C10: `not not e` parses to Not(Not(e)) with every RPN token consumed, for
\* every well-formed operand e.
C10_DoubleNegation ==
    pc = "done" =>
        \A e \in Operands :
            input = NotNot(e.text)
                => /\ result = Returned(<<"Not", <<"Not", e.node>>>>)
                   /\ cursor = Len(rpn) + 1

====
